---- MODULE Spec2Model ----
(***************************************************************************)
(* A model of the bioinfo_tools command-line scripts:                      *)
(*   scripts/RNAseq/homolog_converter.py                                   *)
(*   scripts/chipseq/extract_nearest_genes_of_peaks.py                     *)
(*   scripts/genomics/bed_split_proximal_distal.py                         *)
(*   scripts/genomics/extract_promoters.py, extract_all_genes.py,          *)
(*   extract_genes_position.py                                             *)
(*                                                                         *)
(* A Python str is a sequence of one-character strings.  In attribute      *)
(* strings the words gene_name and gene_id are single symbols of the       *)
(* alphabet: the code only ever compares them whole or as a prefix.        *)
(* Each script is a sequential process; pc is its position.                *)
(***************************************************************************)
EXTENDS Integers, Sequences, FiniteSets, TLC

VARIABLES
    script,        \* which script this run executes
    pc,            \* position in the script
    exitCode,      \* process exit status, -1 while running
    \* ---- HomologConverter.apply_naming_convention called as a function
    ncSelf,        \* the converter object (timeout, verbose, biomart)
    ncSelfBefore,  \* the converter object as it was when the call started
    ncOther,       \* a second converter object, configured differently
    ncGene,        \* argument gene
    ncDirection,   \* argument direction
    ncOnce,        \* apply(gene, direction)
    ncTwice,       \* apply(apply(gene, direction), direction)
    ncOnOther,     \* apply(gene, direction) on the second converter
    \* ---- gene-name extraction from one GTF attribute string
    atAttr,        \* the attribute string
    atNearest,     \* outcome of the gene_name scan of find_nearest_genes
    atSplit,       \* outcome of parse_attributes(..).get("gene_name", ".")
    \* ---- homolog_converter.py, main
    args,            \* the parsed command line
    genes,           \* main: the input gene list
    queries,         \* the calls made to Biomart so far, each with its outcome
    result,          \* _query_biomart: the rows of the ortholog table
    biomart_mapping, \* convert_gene_orthologs: what _query_biomart returned
    mapping,         \* convert_gene_orthologs: source gene -> target gene
    mapping_source,  \* convert_gene_orthologs: source gene -> origin of the mapping
    unmapped,        \* convert_gene_orthologs: genes without a mapping
    stats,           \* convert_gene_orthologs: the statistics record
    outFile,         \* the file named by --output: "absent" or its lines
    stdout,          \* the result text printed to standard output
    stderr,          \* messages printed to standard error
    existing,        \* the input paths that exist in the file system
    \* ---- HomologConverter.convert_gene_orthologs called as a method
    returned,        \* outcome of the call: its result, or the exception raised
    \* ---- extract_nearest_genes_of_peaks.py
    nearestTsv,      \* the file named by --out
    nearestGeneList, \* the file named by --gene-list
    \* ---- extract_promoters.py, extract_all_genes.py, extract_genes_position.py
    gtf,             \* the features of the GTF file, in file order
    gene_set,        \* extract_genes_position: the names of the gene list file
    feature_index,   \* the loop position: the features before it are done
    regions,         \* promoter_regions / gene_regions: gene name -> interval
    counters,        \* the counts the script prints at its end
    outBed,          \* the file named by --output_bed
    \* ---- bed_split_proximal_distal.py
    input_bed,       \* the rows of the input BED file
    promoter_bed,    \* the promoter file handed to bedtools
    gene_coords,     \* gene name -> position, from extract_promoters_from_gtf
    proximal_bed,    \* <prefix>_proximal.bed
    distal_bed,      \* <prefix>_distal.bed
    intersected_bed, \* <prefix>_intersected_genes.bed
    intersected_txt  \* <prefix>_intersected_genes.txt

ncVars == <<ncSelf, ncSelfBefore, ncOther, ncGene, ncDirection, ncOnce, ncTwice, ncOnOther>>
atVars == <<atAttr, atNearest, atSplit>>
hcVars == <<args, genes, queries, result, biomart_mapping, mapping, mapping_source,
           unmapped, stats, outFile, stdout, stderr>>
nrVars == <<existing, nearestTsv, nearestGeneList>>
cgVars == <<returned>>
gtfVars == <<gtf, gene_set, feature_index, regions, counters, outBed>>
splitVars == <<input_bed, promoter_bed, gene_coords, proximal_bed, distal_bed,
              intersected_bed, intersected_txt>>
vars == <<script, pc, exitCode, ncVars, atVars, hcVars, nrVars, cgVars, gtfVars, splitVars>>

\* the variables of the other scripts, which a script leaves alone
namingOthers == <<atVars, hcVars, nrVars, cgVars, gtfVars, splitVars>>
attrOthers == <<ncVars, hcVars, nrVars, cgVars, gtfVars, splitVars>>
cliOthers == <<ncVars, atVars, cgVars, gtfVars, splitVars>>
gtfOthers == <<ncVars, atVars, hcVars, nrVars, cgVars, splitVars>>
splitOthers == <<ncVars, atVars, genes, queries, result, biomart_mapping, mapping,
                mapping_source, unmapped, stats, outFile, stdout, nrVars, cgVars,
                gene_set, feature_index, regions, counters, outBed>>

(***************************************************************************)
(* Bounds                                                                  *)
(***************************************************************************)
MaxSymbolLen == 3
MaxAttrLen == 6
MaxGenes == 2
MaxRows == 2
MaxFeatures == 2
MaxGtfLines == 3
MaxBedRows == 2
MaxPromoters == 2

(***************************************************************************)
(* Python str operations                                                   *)
(***************************************************************************)
RECURSIVE StringsUpTo(_, _)
StringsUpTo(alphabet, n) ==
    IF n = 0 THEN {<<>>}
    ELSE LET shorter == StringsUpTo(alphabet, n - 1)
         IN  shorter \cup {Append(s, c) : s \in shorter, c \in alphabet}

CharUpper(c) ==
    CASE c = "a" -> "A"
      [] c = "b" -> "B"
      [] OTHER -> c

CharLower(c) ==
    CASE c = "A" -> "a"
      [] c = "B" -> "b"
      [] OTHER -> c

\* str.upper()
str_upper(s) == [i \in 1..Len(s) |-> CharUpper(s[i])]

\* str.lower()
str_lower(s) == [i \in 1..Len(s) |-> CharLower(s[i])]

\* str.capitalize(): first character upper-cased, the rest lower-cased
str_capitalize(s) ==
    [i \in 1..Len(s) |-> IF i = 1 THEN CharUpper(s[i]) ELSE CharLower(s[i])]

\* str.swapcase(), used only by a mutant
str_swapcase(s) ==
    [i \in 1..Len(s) |-> IF CharUpper(s[i]) = s[i] THEN CharLower(s[i]) ELSE CharUpper(s[i])]

Whitespace == {" ", "\t", "\n"}

\* s[from..] (1-based), the rest of s
Rest(s, from) == SubSeq(s, from, Len(s))

\* index of the first occurrence of character c in s, 0 when there is none
IndexOf(s, c) ==
    IF \E i \in 1..Len(s) : s[i] = c
    THEN CHOOSE i \in 1..Len(s) : s[i] = c /\ \A j \in 1..(i - 1) : s[j] # c
    ELSE 0

\* s.strip(chars): leading and trailing characters of the set removed
RECURSIVE str_lstrip(_, _)
str_lstrip(s, chars) ==
    IF s # <<>> /\ Head(s) \in chars THEN str_lstrip(Tail(s), chars) ELSE s

RECURSIVE str_rstrip(_, _)
str_rstrip(s, chars) ==
    IF s # <<>> /\ s[Len(s)] \in chars THEN str_rstrip(SubSeq(s, 1, Len(s) - 1), chars) ELSE s

str_strip(s, chars) == str_rstrip(str_lstrip(s, chars), chars)

\* s.split(c) for a one-character separator: always at least one piece
RECURSIVE str_split(_, _)
str_split(s, c) ==
    LET i == IndexOf(s, c)
    IN  IF i = 0 THEN <<s>>
        ELSE <<SubSeq(s, 1, i - 1)>> \o str_split(Rest(s, i + 1), c)

\* s.split(c, 1): split at the first separator only
str_split1(s, c) ==
    LET i == IndexOf(s, c)
    IN  IF i = 0 THEN <<s>> ELSE <<SubSeq(s, 1, i - 1), Rest(s, i + 1)>>

\* s.startswith(prefix)
str_startswith(s, prefix) ==
    Len(s) >= Len(prefix) /\ SubSeq(s, 1, Len(prefix)) = prefix

\* A Python dict is a sequence of <<key, value>> pairs with distinct keys, in
\* insertion order.
DictHas(d, k) == \E i \in 1..Len(d) : d[i][1] = k

DictGet(d, k, default) ==
    IF DictHas(d, k) THEN d[CHOOSE i \in 1..Len(d) : d[i][1] = k][2] ELSE default

\* d[k] = v
DictSet(d, k, v) ==
    IF DictHas(d, k)
    THEN [i \in 1..Len(d) |-> IF d[i][1] = k THEN <<k, v>> ELSE d[i]]
    ELSE Append(d, <<k, v>>)

DictKeys(d) == [i \in 1..Len(d) |-> d[i][1]]

\* The outcome of a call: a returned value or a raised exception.
NoStr == <<"<none>">>
Returned(v) == [raised |-> FALSE, value |-> v]
Raised(e) == [raised |-> TRUE, value |-> <<e>>]
NotCalled == [raised |-> FALSE, value |-> NoStr]

\* A file: absent, or the lines written to it.
NoFile == [exists |-> FALSE, lines |-> <<>>]
FileOf(lines) == [exists |-> TRUE, lines |-> lines]

(***************************************************************************)
(* Gene-name extraction from a GTF attribute string: operators             *)
(***************************************************************************)
GENE_NAME == <<"gene_name">>
QUOTE == "\""
NA == <<"N", "A">>
DOT == <<".">>

\* extract_nearest_genes_of_peaks.py, find_nearest_genes: the gene_name scan.
\* The first item that starts with gene_name decides; item.split('"')[1]
\* raises IndexError when the item holds no quote.
scan_gene_name(gene_info) ==
    LET items == str_split(gene_info, ";")
        stripped == [i \in 1..Len(items) |-> str_strip(items[i], Whitespace)]
        hits == {i \in 1..Len(items) : str_startswith(stripped[i], GENE_NAME)}
    IN  IF gene_info = <<>> \/ hits = {} THEN Returned(NA)
        ELSE LET first == CHOOSE i \in hits : \A j \in hits : i <= j
                 parts == str_split(stripped[first], QUOTE)
             IN  IF Len(parts) < 2 THEN Raised("IndexError") ELSE Returned(parts[2])

\* bed_split_proximal_distal.py, extract_promoters_from_gtf.parse_attributes
RECURSIVE parse_attributes_from(_, _)
parse_attributes_from(pieces, attrs) ==
    IF pieces = <<>> THEN attrs
    ELSE LET attr == str_strip(Head(pieces), Whitespace)
             key_value == str_split1(attr, " ")
         IN  IF attr = <<>> THEN parse_attributes_from(Tail(pieces), attrs)
             ELSE IF Len(key_value) = 2
             THEN parse_attributes_from(Tail(pieces),
                      DictSet(attrs, key_value[1], str_strip(key_value[2], {QUOTE})))
             ELSE parse_attributes_from(Tail(pieces), attrs)

parse_attributes(attr_string) ==
    parse_attributes_from(str_split(str_strip(attr_string, Whitespace), ";"), <<>>)

\* bed_split_proximal_distal.py line 55: attrs.get("gene_name", ".")
split_gene_name(attr_string) == Returned(DictGet(parse_attributes(attr_string), GENE_NAME, DOT))

(***************************************************************************)
(* extract_promoters.py, extract_all_genes.py, extract_genes_position.py:  *)
(* operators                                                               *)
(***************************************************************************)
GENE_ID == <<"gene_id">>

\* s.split(sep) for a two-character separator
RECURSIVE str_split2(_, _)
str_split2(s, sep) ==
    LET hits == {i \in 1..(Len(s) - 1) : s[i] = sep[1] /\ s[i + 1] = sep[2]}
    IN  IF hits = {} THEN <<s>>
        ELSE LET i == CHOOSE h \in hits : \A o \in hits : h <= o
             IN  <<SubSeq(s, 1, i - 1)>> \o str_split2(Rest(s, i + 2), sep)

\* s.replace(c, '')
str_remove(s, c) == SelectSeq(s, LAMBDA x : x # c)

\* the list each item of the attribute column is turned into:
\* item.strip().replace('"', '').split(' ')
attr_pairs(attr_column) ==
    LET items == str_split2(str_strip(attr_column, {";"}), <<";", " ">>)
    IN  [i \in 1..Len(items) |->
            str_split(str_remove(str_strip(items[i], Whitespace), QUOTE), " ")]

RECURSIVE dict_of_pairs(_, _)
dict_of_pairs(pairs, acc) ==
    IF pairs = <<>> THEN acc
    ELSE dict_of_pairs(Tail(pairs), DictSet(acc, Head(pairs)[1], Head(pairs)[2]))

\* attrs = dict(...): ValueError when an item is not exactly a key and a value
gtf_attrs(attr_column) ==
    LET pairs == attr_pairs(attr_column)
    IN  IF \E i \in 1..Len(pairs) : Len(pairs[i]) # 2
        THEN Raised("ValueError")
        ELSE Returned(dict_of_pairs(pairs, <<>>))

\* attrs.get('gene_name') or attrs.get('gene_id'); <<>> when neither is set
gene_name_or_id(attrs) ==
    IF DictGet(attrs, GENE_NAME, <<>>) # <<>>
    THEN DictGet(attrs, GENE_NAME, <<>>)
    ELSE DictGet(attrs, GENE_ID, <<>>)

standard_chroms ==
    {"chr1", "chr2", "chr3", "chr4", "chr5", "chr6", "chr7", "chr8", "chr9", "chr10",
     "chr11", "chr12", "chr13", "chr14", "chr15", "chr16", "chr17", "chr18", "chr19",
     "chr20", "chr21", "chr22", "chrX", "chrY"}

\* pybedtools: the start of an Interval read from a GTF line is 0-based
feature_start(feature) == feature.start - 1
feature_end(feature) == feature.end

DefaultUpstream == 2000
DefaultDownstream == 2000

\* extract_promoters.py lines 32-50: the promoter interval of a transcript
promoter_interval(feature, gene_name, upstream, downstream) ==
    LET tss == IF feature.strand = "+" THEN feature_start(feature) ELSE feature_end(feature)
        lo == IF feature.strand = "+" THEN tss - upstream ELSE tss - downstream
        hi == IF feature.strand = "+" THEN tss + downstream ELSE tss + upstream
    IN  [chrom |-> feature.chrom, start |-> IF lo < 0 THEN 0 ELSE lo, end |-> hi,
         name |-> gene_name, score |-> "0", strand |-> feature.strand]

\* extract_all_genes.py lines 51-58, extract_genes_position.py lines 65-72
gene_interval(feature, gene_name) ==
    [chrom |-> feature.chrom, start |-> feature_start(feature), end |-> feature_end(feature),
     name |-> gene_name, score |-> "0", strand |-> feature.strand]

\* BedTool(intervals).saveas(output_bed): one line per interval
saved_bed(region_dict) == FileOf([i \in 1..Len(region_dict) |-> region_dict[i][2]])

(***************************************************************************)
(* bed_split_proximal_distal.py: operators                                 *)
(***************************************************************************)
DefaultPromoterWindow == 2000

\* bedtools: two intervals overlap when they share a base of one chromosome
Overlaps(a, b) == a.chrom = b.chrom /\ a.start < b.end /\ b.start < a.end
OverlapsAny(a, bs) == \E j \in 1..Len(bs) : Overlaps(a, bs[j])

\* bedtools intersect -a A -b B -wa: the A row, once for every B row it overlaps
RECURSIVE intersect_wa(_, _)
intersect_wa(as, bs) ==
    IF as = <<>> THEN <<>>
    ELSE LET hits == SelectSeq(bs, LAMBDA b : Overlaps(Head(as), b))
         IN  [i \in 1..Len(hits) |-> Head(as)] \o intersect_wa(Tail(as), bs)

\* bedtools intersect -a A -b B with the options given:
\*   -v   the A rows that overlap no B row
\*   -u   the A rows that overlap a B row, each once
\*   -wa  the A row as it is, for every overlap
bedtools_intersect(as, bs, options) ==
    IF "-v" \in options THEN SelectSeq(as, LAMBDA a : ~OverlapsAny(a, bs))
    ELSE IF "-u" \in options THEN SelectSeq(as, LAMBDA a : OverlapsAny(a, bs))
    ELSE intersect_wa(as, bs)

\* mutant: -u is left out of the first call
proximal_options_without_u == {"-wa"}

\* split_regions lines 73-78
proximal_options == {"-wa", "-u"}

\* split_regions lines 80-85
distal_options == {"-v"}

\* split_regions lines 96-101
genes_options == {"-wa"}

\* mutant: the promoter start is not held at 0
promoter_line_unclamped(line, promoter_window) ==
    LET start == line.start - 1
        gene_name == split_gene_name(line.attrs).value
        tss0 == IF line.strand = "+" THEN start ELSE line.end
    IN  [chrom |-> line.chrom, start |-> tss0 - promoter_window,
         end |-> tss0 + promoter_window, name |-> gene_name, score |-> ".",
         strand |-> line.strand]

\* extract_promoters_from_gtf lines 50-65: the promoter line of a transcript
promoter_line(line, promoter_window) ==
    LET start == line.start - 1
        gene_name == split_gene_name(line.attrs).value
        tss0 == IF line.strand = "+" THEN start ELSE line.end
        lo == tss0 - promoter_window
    IN  [chrom |-> line.chrom, start |-> IF lo < 0 THEN 0 ELSE lo,
         end |-> tss0 + promoter_window, name |-> gene_name, score |-> ".",
         strand |-> line.strand]

\* extract_promoters_from_gtf lines 42-67: <<the lines written, gene_coords>>
RECURSIVE promoters_from_gtf(_, _, _, _)
promoters_from_gtf(lines, promoter_window, out, coords) ==
    IF lines = <<>> THEN <<out, coords>>
    ELSE IF Head(lines).feature # "transcript"
    THEN promoters_from_gtf(Tail(lines), promoter_window, out, coords)
    ELSE LET line == Head(lines)
             gene_name == split_gene_name(line.attrs).value
         IN  promoters_from_gtf(Tail(lines), promoter_window,
                 Append(out, promoter_line(line, promoter_window)),
                 IF gene_name # DOT
                 THEN DictSet(coords, gene_name,
                          [chrom |-> line.chrom, start |-> line.start - 1, end |-> line.end,
                           strand |-> line.strand])
                 ELSE coords)

\* split_regions lines 94-112: the genes whose promoter overlaps an input
\* row, each once, in the order bedtools reports them
RECURSIVE intersected_genes(_, _, _, _)
intersected_genes(lines, coords, seen, out) ==
    IF lines = <<>> THEN out
    ELSE LET gene_name == Head(lines).name
         IN  IF gene_name # DOT /\ gene_name \notin seen /\ DictHas(coords, gene_name)
             THEN intersected_genes(Tail(lines), coords, seen \cup {gene_name},
                      Append(out, [chrom |-> DictGet(coords, gene_name, NoStr).chrom,
                                   start |-> DictGet(coords, gene_name, NoStr).start,
                                   end |-> DictGet(coords, gene_name, NoStr).end,
                                   name |-> gene_name, score |-> ".",
                                   strand |-> DictGet(coords, gene_name, NoStr).strand]))
             ELSE intersected_genes(Tail(lines), coords, seen, out)

(***************************************************************************)
(* homolog_converter.py: HomologConverter                                  *)
(***************************************************************************)
\* HomologConverter.__init__
HomologConverter(timeout, verbose) ==
    [timeout |-> timeout, verbose |-> verbose, biomart |-> "None"]

\* mutant: 'h2m' swaps the case instead of capitalizing
apply_naming_convention_swapcase(self, gene, direction) ==
    IF direction = "m2h" THEN str_upper(gene)
    ELSE IF direction = "h2m" THEN str_swapcase(gene)
    ELSE gene

\* HomologConverter.apply_naming_convention
apply_naming_convention(self, gene, direction) ==
    IF direction = "m2h" THEN str_upper(gene)
    ELSE IF direction = "h2m" THEN str_capitalize(gene)
    ELSE gene

\* mutant: every direction but 'h2m' gets the configuration of 'm2h'
get_dataset_config_unchecked(self, direction) ==
    Returned([source_dataset |-> IF direction = "h2m" THEN "hsapiens_gene_ensembl"
                                 ELSE "mmusculus_gene_ensembl",
              source_attr |-> "external_gene_name",
              target_attr |-> IF direction = "h2m" THEN "mmusculus_homolog_associated_gene_name"
                              ELSE "hsapiens_homolog_associated_gene_name",
              test_gene |-> IF direction = "h2m" THEN "ACTB" ELSE "Actb",
              source_species |-> IF direction = "h2m" THEN "human" ELSE "mouse",
              target_species |-> IF direction = "h2m" THEN "mouse" ELSE "human"])

\* HomologConverter.get_dataset_config
get_dataset_config(self, direction) ==
    IF direction = "m2h"
    THEN Returned([source_dataset |-> "mmusculus_gene_ensembl",
                   source_attr |-> "external_gene_name",
                   target_attr |-> "hsapiens_homolog_associated_gene_name",
                   test_gene |-> "Actb",
                   source_species |-> "mouse",
                   target_species |-> "human"])
    ELSE IF direction = "h2m"
    THEN Returned([source_dataset |-> "hsapiens_gene_ensembl",
                   source_attr |-> "external_gene_name",
                   target_attr |-> "mmusculus_homolog_associated_gene_name",
                   test_gene |-> "ACTB",
                   source_species |-> "human",
                   target_species |-> "mouse"])
    ELSE Raised("ValueError")

\* pandas: a missing cell of the result table
NaN == <<"NaN">>
pd_notna(v) == v # NaN

\* _query_biomart lines 252-253: both cells present and not blank
ValidRow(row) ==
    /\ pd_notna(row[1])
    /\ pd_notna(row[2])
    /\ str_strip(row[2], Whitespace) # <<>>
    /\ str_strip(row[1], Whitespace) # <<>>

\* mutant: only the source cell is validated
ValidRowSourceOnly(row) ==
    /\ pd_notna(row[1])
    /\ str_strip(row[1], Whitespace) # <<>>

\* _query_biomart lines 244-256: the table as a dict, invalid rows skipped
RECURSIVE all_biomart_mapping(_, _)
all_biomart_mapping(rows, acc) ==
    IF rows = <<>> THEN acc
    ELSE all_biomart_mapping(Tail(rows),
             IF ValidRow(Head(rows)) THEN DictSet(acc, Head(rows)[1], Head(rows)[2]) ELSE acc)

\* _query_biomart lines 263-265: the entries of the input genes
RECURSIVE filter_input_genes(_, _, _)
filter_input_genes(gs, all, acc) ==
    IF gs = <<>> THEN acc
    ELSE filter_input_genes(Tail(gs), all,
             IF DictHas(all, Head(gs)) THEN DictSet(acc, Head(gs), DictGet(all, Head(gs), NoStr))
             ELSE acc)

\* mutant: the Biomart genes are not marked
mark_biomart_skipped(bm) == <<>>

\* convert_gene_orthologs lines 166-170: mapping.update and the 'biomart' marks
mark_biomart(bm) == [i \in 1..Len(bm) |-> <<bm[i][1], "biomart">>]

\* mutant: the fallback loop returns after the first gene it converts
apply_fallback_stops_early(self, gs, direction, m, src) ==
    IF gs = <<>> THEN <<m, src>>
    ELSE IF DictHas(m, Head(gs)) THEN <<m, src>>
    ELSE <<DictSet(m, Head(gs), apply_naming_convention(self, Head(gs), direction)),
           DictSet(src, Head(gs), "naming_convention")>>

\* mutant: the naming convention is applied to every gene, mapped or not
RECURSIVE apply_fallback_overwrites(_, _, _, _, _)
apply_fallback_overwrites(self, gs, direction, m, src) ==
    IF gs = <<>> THEN <<m, src>>
    ELSE apply_fallback_overwrites(self, Tail(gs), direction,
             DictSet(m, Head(gs), apply_naming_convention(self, Head(gs), direction)),
             DictSet(src, Head(gs), "naming_convention"))

\* convert_gene_orthologs lines 173-179: the naming convention for the genes
\* that have no mapping yet; returns <<mapping, mapping_source>>
RECURSIVE apply_fallback(_, _, _, _, _)
apply_fallback(self, gs, direction, m, src) ==
    IF gs = <<>> THEN <<m, src>>
    ELSE IF DictHas(m, Head(gs)) THEN apply_fallback(self, Tail(gs), direction, m, src)
    ELSE apply_fallback(self, Tail(gs), direction,
             DictSet(m, Head(gs), apply_naming_convention(self, Head(gs), direction)),
             DictSet(src, Head(gs), "naming_convention"))

\* convert_gene_orthologs line 182
unmapped_genes(gs, m) == SelectSeq(gs, LAMBDA g : ~DictHas(m, g))

\* convert_gene_orthologs lines 185-191; success_rate is kept as the whole
\* percentage below the float the code computes
statistics(gs, bm, m, src, um) ==
    [total_input |-> Len(gs),
     biomart_mapped |-> Len(bm),
     convention_mapped |-> Cardinality({i \in 1..Len(src) : src[i][2] = "naming_convention"}),
     unmapped |-> Len(um),
     success_rate |-> IF gs # <<>> THEN (Len(m) * 100) \div Len(gs) ELSE 0]

\* format_output: one line per entry of result['mapping']
format_output(res, format_type) ==
    IF format_type = "simple"
    THEN [i \in 1..Len(res.mapping) |-> <<res.mapping[i][1], res.mapping[i][2]>>]
    ELSE IF format_type = "json"
    THEN <<res>>
    ELSE <<<<(<<"Source_Gene">>), (<<"Target_Gene">>), "Mapping_Source">>>> \o
         [i \in 1..Len(res.mapping) |->
             <<res.mapping[i][1], res.mapping[i][2],
               DictGet(res.source, res.mapping[i][1], "unknown")>>]

\* read_genes_from_file line 417: the stripped non-blank lines
read_genes(lines) ==
    LET stripped == [i \in 1..Len(lines) |-> str_strip(lines[i], Whitespace)]
    IN  SelectSeq(stripped, LAMBDA l : l # <<>>)

(***************************************************************************)
(* apply_naming_convention as a function of its arguments                  *)
(***************************************************************************)
SymbolChars == {"a", "B", "1"}
GeneSymbols == StringsUpTo(SymbolChars, MaxSymbolLen)
Directions == {"m2h", "h2m"}
AnyDirections == Directions \cup {"x2y"}
Converters == {HomologConverter(300, TRUE), HomologConverter(60, FALSE)}

\* The variables of the scripts a run does not execute keep these values.
NamingIdle ==
    /\ ncSelf = HomologConverter(300, TRUE)
    /\ ncOther = ncSelf
    /\ ncSelfBefore = ncSelf
    /\ ncGene = NoStr
    /\ ncDirection = "m2h"
    /\ ncOnce = NoStr
    /\ ncTwice = NoStr
    /\ ncOnOther = NoStr

AttrIdle ==
    /\ atAttr = NoStr
    /\ atNearest = NotCalled
    /\ atSplit = NotCalled

NoArgs == [script |-> "None"]
NoStats == [total_input |-> -1, biomart_mapped |-> -1, convention_mapped |-> -1,
            unmapped |-> -1, success_rate |-> -1]

HomologIdle ==
    /\ args = NoArgs
    /\ genes = <<>>
    /\ queries = <<>>
    /\ result = <<>>
    /\ biomart_mapping = <<>>
    /\ mapping = <<>>
    /\ mapping_source = <<>>
    /\ unmapped = <<>>
    /\ stats = NoStats
    /\ outFile = NoFile
    /\ stdout = <<>>
    /\ stderr = <<>>

ConvertIdle == returned = NotCalled

NearestIdle ==
    /\ nearestTsv = NoFile
    /\ nearestGeneList = NoFile

NoCounters == [genes_processed |-> 0, genes_found |-> 0, genes_not_found |-> 0,
               non_standard_chroms |-> 0]

SplitIdle ==
    /\ input_bed = <<>>
    /\ promoter_bed = NoFile
    /\ gene_coords = <<>>
    /\ proximal_bed = NoFile
    /\ distal_bed = NoFile
    /\ intersected_bed = NoFile
    /\ intersected_txt = NoFile

GtfIdle ==
    /\ gtf = <<>>
    /\ gene_set = {}
    /\ feature_index = 1
    /\ regions = <<>>
    /\ counters = NoCounters
    /\ outBed = NoFile

InitNaming ==
    /\ script = "apply_naming_convention"
    /\ pc = "start"
    /\ exitCode = -1
    /\ ncSelf \in Converters
    /\ ncOther \in Converters
    /\ ncSelfBefore = ncSelf
    /\ ncGene \in GeneSymbols
    /\ ncDirection \in AnyDirections
    /\ ncOnce = NoStr
    /\ ncTwice = NoStr
    /\ ncOnOther = NoStr
    /\ AttrIdle
    /\ HomologIdle
    /\ NearestIdle
    /\ ConvertIdle
    /\ GtfIdle
    /\ SplitIdle
    /\ existing = {}

\* first call, and the same call on the other converter
NamingCallOnce ==
    /\ script = "apply_naming_convention"
    /\ pc = "start"
    /\ ncSelfBefore' = ncSelf
    /\ ncOnce' = apply_naming_convention(ncSelf, ncGene, ncDirection)
    /\ ncOnOther' = apply_naming_convention(ncOther, ncGene, ncDirection)
    /\ pc' = "once"
    /\ UNCHANGED <<script, exitCode, ncSelf, ncOther, ncGene, ncDirection, ncTwice, namingOthers>>

\* second call, on the result of the first
NamingCallTwice ==
    /\ script = "apply_naming_convention"
    /\ pc = "once"
    /\ ncTwice' = apply_naming_convention(ncSelf, ncOnce, ncDirection)
    /\ pc' = "twice"
    /\ UNCHANGED <<script, exitCode, ncSelf, ncSelfBefore, ncOther, ncGene, ncDirection,
                   ncOnce, ncOnOther, namingOthers>>

NextNaming == NamingCallOnce \/ NamingCallTwice

SpecNaming == InitNaming /\ [][NextNaming]_vars

\* C6: apply_naming_convention is idempotent in every direction, its result is the
\* same on any converter (it depends on gene and direction only), and the
\* converter object is the same after the call as before it.
C6_NamingPureIdempotent ==
    /\ pc \in {"once", "twice"} =>
          /\ ncOnOther = ncOnce
          /\ ncSelf = ncSelfBefore
    /\ pc = "twice" => ncTwice = ncOnce

\* a symbol whose case the convention changes has been converted twice
C6_Witness ==
    /\ pc = "twice"
    /\ ncDirection = "h2m"
    /\ ncOnce # ncGene
    /\ Len(ncGene) >= 2
    /\ ncSelf # ncOther

(***************************************************************************)
(* homolog_converter.py: main                                              *)
(***************************************************************************)
HCGenes == {<<"a", "B">>, <<"B", "1">>}
TargetGene == <<"T">>
\* a second ortholog of one gene
OtherTarget == <<"U">>
Blank == <<" ">>
\* the rows Biomart may return: valid ones, and ones with a missing or blank cell
TableRows ==
    {<<g, TargetGene>> : g \in HCGenes}
        \cup {<<<<"a", "B">>, OtherTarget>>}
        \cup {<<<<"a", "B">>, NaN>>, <<<<"a", "B">>, Blank>>, <<NaN, TargetGene>>, <<Blank, TargetGene>>}
RECURSIVE SeqsUpTo(_, _)
SeqsUpTo(S, n) ==
    IF n = 0 THEN {<<>>}
    ELSE LET shorter == SeqsUpTo(S, n - 1)
         IN  shorter \cup {Append(s, x) : s \in shorter, x \in S}
GeneLists == SeqsUpTo(HCGenes, MaxGenes)
\* a line of the gene file: a symbol and its line end, or a blank line
FileLines == {g \o <<"\n">> : g \in HCGenes} \cup {<<" ", "\n">>}
FileContents == SeqsUpTo(FileLines, MaxGenes)
Tables == SeqsUpTo(TableRows, MaxRows)

\* create_parser: -g and -f exclude each other and one is required; -g takes
\* one symbol or more; -d is one of m2h, h2m.  --quiet and --timeout keep
\* their defaults.  genes = <<>> stands for None.
ParsedArgs ==
    {[script |-> "homolog_converter", genes |-> gs, file |-> f, direction |-> d,
      no_biomart |-> nb, no_fallback |-> nf, output |-> o, format |-> fmt,
      quiet |-> FALSE, timeout |-> 300] :
        gs \in GeneLists, f \in {"None", "genes.txt"}, d \in Directions,
        nb \in BOOLEAN, nf \in BOOLEAN, o \in {"None", "out.tsv"},
        fmt \in {"tsv", "json", "simple"}}

\* main line 463
converter == HomologConverter(args.timeout, ~args.quiet)

Exit(code) ==
    /\ exitCode' = code
    /\ pc' = "exited"

InitCli ==
    /\ script \in {"homolog_converter", "extract_nearest_genes_of_peaks"}
    /\ pc = "start"
    /\ exitCode = -1
    /\ NamingIdle
    /\ AttrIdle
    /\ HomologIdle
    /\ NearestIdle
    /\ ConvertIdle
    /\ GtfIdle
    /\ SplitIdle
    /\ existing \in IF script = "homolog_converter"
                    THEN SUBSET {"genes.txt"}
                    ELSE SUBSET {"peaks.bed", "genes.gtf"}

\* main lines 449-450
HCParseArgs ==
    /\ script = "homolog_converter"
    /\ pc = "start"
    /\ \E a \in ParsedArgs :
          /\ (a.genes = <<>>) # (a.file = "None")
          /\ args' = a
    /\ pc' = "read_input"
    /\ UNCHANGED <<script, exitCode, cliOthers, nrVars, genes, queries, result, biomart_mapping,
                   mapping, mapping_source, unmapped, stats, outFile, stdout, stderr>>

\* main lines 453-454
HCGenesFromArgs ==
    /\ script = "homolog_converter"
    /\ pc = "read_input"
    /\ args.genes # <<>>
    /\ genes' = args.genes
    /\ pc' = "check_genes"
    /\ UNCHANGED <<script, exitCode, cliOthers, nrVars, args, queries, result, biomart_mapping,
                   mapping, mapping_source, unmapped, stats, outFile, stdout, stderr>>

\* main line 456, read_genes_from_file lines 416-418
HCReadFile ==
    /\ script = "homolog_converter"
    /\ pc = "read_input"
    /\ args.genes = <<>>
    /\ args.file \in existing
    /\ \E lines \in FileContents : genes' = read_genes(lines)
    /\ pc' = "check_genes"
    /\ UNCHANGED <<script, exitCode, cliOthers, nrVars, args, queries, result, biomart_mapping,
                   mapping, mapping_source, unmapped, stats, outFile, stdout, stderr>>

\* read_genes_from_file lines 419-421: the file does not exist
HCReadFileNotFound ==
    /\ script = "homolog_converter"
    /\ pc = "read_input"
    /\ args.genes = <<>>
    /\ args.file \notin existing
    /\ stderr' = Append(stderr, "Error: File not found")
    /\ Exit(1)
    /\ UNCHANGED <<script, cliOthers, nrVars, args, genes, queries, result, biomart_mapping,
                   mapping, mapping_source, unmapped, stats, outFile, stdout>>

\* read_genes_from_file lines 422-424: any other failure of open or read
HCReadFileError ==
    /\ script = "homolog_converter"
    /\ pc = "read_input"
    /\ args.genes = <<>>
    /\ args.file \in existing
    /\ stderr' = Append(stderr, "Error reading file")
    /\ Exit(1)
    /\ UNCHANGED <<script, cliOthers, nrVars, args, genes, queries, result, biomart_mapping,
                   mapping, mapping_source, unmapped, stats, outFile, stdout>>

\* main lines 458-460
HCNoGenes ==
    /\ script = "homolog_converter"
    /\ pc = "check_genes"
    /\ genes = <<>>
    /\ stderr' = Append(stderr, "Error: No genes provided")
    /\ Exit(1)
    /\ UNCHANGED <<script, cliOthers, nrVars, args, genes, queries, result, biomart_mapping,
                   mapping, mapping_source, unmapped, stats, outFile, stdout>>

\* main lines 463-475, convert_gene_orthologs lines 148-165: the configuration
\* of the direction, the empty results, and the choice of the Biomart path
HCConvertBegin ==
    /\ script = "homolog_converter"
    /\ pc = "check_genes"
    /\ genes # <<>>
    /\ IF get_dataset_config(converter, args.direction).raised
       THEN /\ stderr' = Append(stderr, "Error during conversion")
            /\ Exit(1)
       ELSE /\ pc' = IF ~args.no_biomart THEN "bm_new" ELSE "finish"
            /\ UNCHANGED <<exitCode, stderr>>
    /\ mapping' = <<>>
    /\ unmapped' = <<>>
    /\ mapping_source' = <<>>
    /\ biomart_mapping' = <<>>
    /\ UNCHANGED <<script, cliOthers, nrVars, args, genes, queries, result, stats, outFile, stdout>>

\* main lines 500-502: an exception leaves convert_gene_orthologs (a progress
\* message that cannot be printed, lines 161 and 194)
HCConversionRaises ==
    /\ script = "homolog_converter"
    /\ \/ pc = "check_genes" /\ genes # <<>>
       \/ pc = "finish"
    /\ stderr' = Append(stderr, "Error during conversion")
    /\ Exit(1)
    /\ UNCHANGED <<script, cliOthers, nrVars, args, genes, queries, result, biomart_mapping,
                   mapping, mapping_source, unmapped, stats, outFile, stdout>>

\* A call to Biomart: building the client ("connect": Biomart() contacts the
\* host), the test query, or the ortholog query; and how it ended.
Call(kind, outcome) == [kind |-> kind, outcome |-> outcome]

\* _query_biomart returns {} (lines 224, 238, 290)
ReturnEmptyMapping ==
    /\ biomart_mapping' = <<>>
    /\ pc' = "finish"

\* _query_biomart line 220: Biomart() is built
HCBiomartNew ==
    /\ script = "homolog_converter"
    /\ pc = "bm_new"
    /\ queries' = Append(queries, Call("connect", "ok"))
    /\ pc' = "bm_test"
    /\ UNCHANGED <<script, exitCode, cliOthers, nrVars, args, genes, result, biomart_mapping,
                   mapping, mapping_source, unmapped, stats, outFile, stdout, stderr>>

\* _query_biomart line 220 raises, caught at lines 278-290
HCBiomartNewRaises ==
    /\ script = "homolog_converter"
    /\ pc = "bm_new"
    /\ queries' = Append(queries, Call("connect", "raised"))
    /\ ReturnEmptyMapping
    /\ UNCHANGED <<script, exitCode, cliOthers, nrVars, args, genes, result,
                   mapping, mapping_source, unmapped, stats, outFile, stdout, stderr>>

\* test_biomart_connection lines 53-62: the test query answers
HCTestConnectionOk ==
    /\ script = "homolog_converter"
    /\ pc = "bm_test"
    /\ queries' = queries \o <<Call("connect", "ok"), Call("test", "ok")>>
    /\ pc' = "bm_query"
    /\ UNCHANGED <<script, exitCode, cliOthers, nrVars, args, genes, result, biomart_mapping,
                   mapping, mapping_source, unmapped, stats, outFile, stdout, stderr>>

\* test_biomart_connection line 53 raises before the query is sent; caught at
\* line 64, and _query_biomart returns {} at line 224
HCTestConnectionNewRaises ==
    /\ script = "homolog_converter"
    /\ pc = "bm_test"
    /\ queries' = Append(queries, Call("connect", "raised"))
    /\ ReturnEmptyMapping
    /\ UNCHANGED <<script, exitCode, cliOthers, nrVars, args, genes, result,
                   mapping, mapping_source, unmapped, stats, outFile, stdout, stderr>>

\* mutant: the result of the connection test is ignored
HCTestQueryRaisesThenQueries ==
    /\ script = "homolog_converter"
    /\ pc = "bm_test"
    /\ queries' = queries \o <<Call("connect", "ok"), Call("test", "raised")>>
    /\ pc' = "bm_query"
    /\ UNCHANGED <<script, exitCode, cliOthers, nrVars, args, genes, result, biomart_mapping,
                   mapping, mapping_source, unmapped, stats, outFile, stdout, stderr>>

\* test_biomart_connection lines 54-58: the test query raises; caught at line 64
HCTestQueryRaises ==
    /\ script = "homolog_converter"
    /\ pc = "bm_test"
    /\ queries' = queries \o <<Call("connect", "ok"), Call("test", "raised")>>
    /\ ReturnEmptyMapping
    /\ UNCHANGED <<script, exitCode, cliOthers, nrVars, args, genes, result,
                   mapping, mapping_source, unmapped, stats, outFile, stdout, stderr>>

\* _query_biomart lines 230-233: the ortholog query raises; caught at 278-290
HCOrthologQueryRaises ==
    /\ script = "homolog_converter"
    /\ pc = "bm_query"
    /\ queries' = Append(queries, Call("ortholog", "raised"))
    /\ ReturnEmptyMapping
    /\ UNCHANGED <<script, exitCode, cliOthers, nrVars, args, genes, result,
                   mapping, mapping_source, unmapped, stats, outFile, stdout, stderr>>

\* _query_biomart lines 230-238: the ortholog query answers with an empty table
HCOrthologQueryEmpty ==
    /\ script = "homolog_converter"
    /\ pc = "bm_query"
    /\ queries' = Append(queries, Call("ortholog", "empty"))
    /\ ReturnEmptyMapping
    /\ UNCHANGED <<script, exitCode, cliOthers, nrVars, args, genes, result,
                   mapping, mapping_source, unmapped, stats, outFile, stdout, stderr>>

\* _query_biomart lines 230-241: the ortholog query answers with rows
HCOrthologQueryRows ==
    /\ script = "homolog_converter"
    /\ pc = "bm_query"
    /\ queries' = Append(queries, Call("ortholog", "rows"))
    /\ \E rows \in Tables : rows # <<>> /\ result' = rows
    /\ pc' = "bm_build"
    /\ UNCHANGED <<script, exitCode, cliOthers, nrVars, args, genes, biomart_mapping,
                   mapping, mapping_source, unmapped, stats, outFile, stdout, stderr>>

\* mutant: the rows are not filtered for the input genes
query_biomart_mapping_unfiltered(gs, rows) == all_biomart_mapping(rows, <<>>)

\* _query_biomart lines 243-276: the mapping it returns for a table
query_biomart_mapping(gs, rows) ==
    filter_input_genes(gs, all_biomart_mapping(rows, <<>>), <<>>)

HCBuildMapping ==
    /\ script = "homolog_converter"
    /\ pc = "bm_build"
    /\ biomart_mapping' = query_biomart_mapping(genes, result)
    /\ result' = <<>>
    /\ pc' = "finish"
    /\ UNCHANGED <<script, exitCode, cliOthers, nrVars, args, genes, queries,
                   mapping, mapping_source, unmapped, stats, outFile, stdout, stderr>>

\* mutant: the fallback runs whatever the flag says
use_fallback_always(fallback_to_convention) == TRUE

\* convert_gene_orthologs line 173
use_fallback(fallback_to_convention) == fallback_to_convention

\* convert_gene_orthologs lines 166-201: the result dictionary
conversion_result(self, gs, direction, use_biomart, fallback_to_convention, bm) ==
    LET m0 == IF use_biomart THEN bm ELSE <<>>
        s0 == IF use_biomart THEN mark_biomart(bm) ELSE <<>>
        fb == IF use_fallback(fallback_to_convention)
              THEN apply_fallback(self, gs, direction, m0, s0)
              ELSE <<m0, s0>>
        um == unmapped_genes(gs, fb[1])
    IN  [mapping |-> fb[1],
         statistics |-> statistics(gs, bm, fb[1], fb[2], um),
         unmapped |-> um,
         source |-> fb[2]]

HCFinishConversion ==
    /\ script = "homolog_converter"
    /\ pc = "finish"
    /\ LET res == conversion_result(converter, genes, args.direction, ~args.no_biomart,
                                    ~args.no_fallback, biomart_mapping)
       IN  /\ mapping' = res.mapping
           /\ mapping_source' = res.source
           /\ unmapped' = res.unmapped
           /\ stats' = res.statistics
    /\ pc' = "output"
    /\ UNCHANGED <<script, exitCode, cliOthers, nrVars, args, genes, queries, result,
                   biomart_mapping, outFile, stdout, stderr>>

\* the dictionary convert_gene_orthologs returned to main
conversion == [mapping |-> mapping, statistics |-> stats, unmapped |-> unmapped,
               source |-> mapping_source]

\* mutant: main always reports success
exit_status_always_zero(unmapped_count) == 0

\* main line 498
exit_status(unmapped_count) == IF unmapped_count = 0 THEN 0 ELSE 1

\* main lines 478-486, 494-498: the text is written to --output
HCWriteOutput ==
    /\ script = "homolog_converter"
    /\ pc = "output"
    /\ args.output # "None"
    /\ outFile' = FileOf(format_output(conversion, args.format))
    /\ stderr' = IF stats.unmapped > 0 /\ ~args.quiet
                 THEN Append(stderr, "Warning: genes could not be mapped")
                 ELSE stderr
    /\ Exit(exit_status(stats.unmapped))
    /\ UNCHANGED <<script, cliOthers, nrVars, args, genes, queries, result, biomart_mapping,
                   mapping, mapping_source, unmapped, stats, stdout>>

\* main lines 482-489: open or write raises
HCWriteOutputFails ==
    /\ script = "homolog_converter"
    /\ pc = "output"
    /\ args.output # "None"
    /\ stderr' = Append(stderr, "Error writing to file")
    /\ Exit(1)
    /\ UNCHANGED <<script, cliOthers, nrVars, args, genes, queries, result, biomart_mapping,
                   mapping, mapping_source, unmapped, stats, outFile, stdout>>

\* main lines 478, 490-498: the text is printed
HCPrintOutput ==
    /\ script = "homolog_converter"
    /\ pc = "output"
    /\ args.output = "None"
    /\ stdout' = format_output(conversion, args.format)
    /\ stderr' = IF stats.unmapped > 0 /\ ~args.quiet
                 THEN Append(stderr, "Warning: genes could not be mapped")
                 ELSE stderr
    /\ Exit(exit_status(stats.unmapped))
    /\ UNCHANGED <<script, cliOthers, nrVars, args, genes, queries, result, biomart_mapping,
                   mapping, mapping_source, unmapped, stats, outFile>>

\* main lines 491, 500-502: printing the text raises
HCPrintOutputRaises ==
    /\ script = "homolog_converter"
    /\ pc = "output"
    /\ args.output = "None"
    /\ stderr' = Append(stderr, "Error during conversion")
    /\ Exit(1)
    /\ UNCHANGED <<script, cliOthers, nrVars, args, genes, queries, result, biomart_mapping,
                   mapping, mapping_source, unmapped, stats, outFile, stdout>>

NextHomolog ==
    \/ HCParseArgs
    \/ HCGenesFromArgs
    \/ HCReadFile
    \/ HCReadFileNotFound
    \/ HCReadFileError
    \/ HCNoGenes
    \/ HCConvertBegin
    \/ HCConversionRaises
    \/ HCBiomartNew
    \/ HCBiomartNewRaises
    \/ HCTestConnectionOk
    \/ HCTestConnectionNewRaises
    \/ HCTestQueryRaises
    \/ HCOrthologQueryRaises
    \/ HCOrthologQueryEmpty
    \/ HCOrthologQueryRows
    \/ HCBuildMapping
    \/ HCFinishConversion
    \/ HCWriteOutput
    \/ HCWriteOutputFails
    \/ HCPrintOutput
    \/ HCPrintOutputRaises

(***************************************************************************)
(* HomologConverter.convert_gene_orthologs called as a method              *)
(***************************************************************************)
\* the receiver and the arguments of one call; genes is a list of symbols, or
\* one symbol given as a str
CallArgs(self, is_str, gs, direction, use_biomart, fallback_to_convention) ==
    [script |-> "convert_gene_orthologs", self |-> self, genes_is_str |-> is_str,
     genes |-> gs, direction |-> direction, use_biomart |-> use_biomart,
     fallback_to_convention |-> fallback_to_convention]

\* convert_gene_orthologs lines 148-149
genes_as_list(a) == IF a.genes_is_str THEN <<a.genes>> ELSE a.genes

InitConvert ==
    /\ script = "convert_gene_orthologs"
    /\ pc = "call"
    /\ exitCode = -1
    /\ NamingIdle
    /\ AttrIdle
    /\ \E self \in Converters, d \in AnyDirections, ub \in BOOLEAN, fb \in BOOLEAN :
          \/ \E gs \in GeneLists : args = CallArgs(self, FALSE, gs, d, ub, fb)
          \/ \E g \in HCGenes : args = CallArgs(self, TRUE, g, d, ub, fb)
    /\ genes = <<>> /\ queries = <<>> /\ result = <<>> /\ biomart_mapping = <<>>
    /\ mapping = <<>> /\ mapping_source = <<>> /\ unmapped = <<>> /\ stats = NoStats
    /\ outFile = NoFile /\ stdout = <<>> /\ stderr = <<>>
    /\ NearestIdle
    /\ ConvertIdle
    /\ existing = {}
    /\ GtfIdle
    /\ SplitIdle

ConvertRun == script = "convert_gene_orthologs"

\* convert_gene_orthologs lines 147-164: the list of genes, the configuration
\* of the direction (its ValueError leaves the method), the empty results
CGBegin ==
    /\ ConvertRun
    /\ pc = "call"
    /\ genes' = genes_as_list(args)
    /\ IF get_dataset_config(args.self, args.direction).raised
       THEN /\ returned' = get_dataset_config(args.self, args.direction)
            /\ pc' = "raised"
       ELSE /\ returned' = returned
            /\ pc' = IF args.use_biomart THEN "query" ELSE "finish"
    /\ mapping' = <<>>
    /\ unmapped' = <<>>
    /\ mapping_source' = <<>>
    /\ biomart_mapping' = <<>>
    /\ UNCHANGED <<script, exitCode, ncVars, atVars, gtfVars, splitVars, nrVars, args, queries,
                   result, stats, outFile, stdout, stderr>>

\* the calls _query_biomart makes to Biomart on each path that ends in
\* 'return {}' (lines 220, 223-224, 230-238, 278-290)
FailedQueries ==
    {<<Call("connect", "raised")>>,
     <<Call("connect", "ok"), Call("connect", "raised")>>,
     <<Call("connect", "ok"), Call("connect", "ok"), Call("test", "raised")>>,
     <<Call("connect", "ok"), Call("connect", "ok"), Call("test", "ok"),
       Call("ortholog", "raised")>>,
     <<Call("connect", "ok"), Call("connect", "ok"), Call("test", "ok"),
       Call("ortholog", "empty")>>}
\* the calls of the path that builds a mapping
AnsweredQueries ==
    <<Call("connect", "ok"), Call("connect", "ok"), Call("test", "ok"), Call("ortholog", "rows")>>

\* convert_gene_orthologs line 165: _query_biomart fails and returns {}
CGQueryBiomartFails ==
    /\ ConvertRun
    /\ pc = "query"
    /\ queries' \in FailedQueries
    /\ biomart_mapping' = <<>>
    /\ pc' = "finish"
    /\ UNCHANGED <<script, exitCode, ncVars, atVars, gtfVars, splitVars, nrVars, cgVars, args,
                   genes, result, mapping, mapping_source, unmapped, stats, outFile, stdout,
                   stderr>>

\* convert_gene_orthologs line 165: _query_biomart returns the mapping it
\* built from the rows of the table
CGQueryBiomart ==
    /\ ConvertRun
    /\ pc = "query"
    /\ queries' = AnsweredQueries
    /\ \E rows \in Tables :
          /\ rows # <<>>
          /\ result' = rows
          /\ biomart_mapping' = query_biomart_mapping(genes, rows)
    /\ pc' = "finish"
    /\ UNCHANGED <<script, exitCode, ncVars, atVars, gtfVars, splitVars, nrVars, cgVars, args,
                   genes, mapping, mapping_source, unmapped, stats, outFile, stdout, stderr>>

\* convert_gene_orthologs lines 166-201
CGFinish ==
    /\ ConvertRun
    /\ pc = "finish"
    /\ LET res == conversion_result(args.self, genes, args.direction, args.use_biomart,
                                    args.fallback_to_convention, biomart_mapping)
       IN  /\ mapping' = res.mapping
           /\ mapping_source' = res.source
           /\ unmapped' = res.unmapped
           /\ stats' = res.statistics
           /\ returned' = Returned(res)
    /\ pc' = "returned"
    /\ UNCHANGED <<script, exitCode, ncVars, atVars, gtfVars, splitVars, nrVars, args, genes,
                   queries, result, biomart_mapping, outFile, stdout, stderr>>

NextConvert == CGBegin \/ CGQueryBiomartFails \/ CGQueryBiomart \/ CGFinish

SpecConvert == InitConvert /\ [][NextConvert]_vars

(***************************************************************************)
(* extract_nearest_genes_of_peaks.py                                       *)
(***************************************************************************)
\* the order of the characters, for sorted()
CharOrder == <<" ", QUOTE, ".", "1", ";", "A", "B", "N", "T", "a", "b", "x">>
CharRank(c) == CHOOSE i \in 1..Len(CharOrder) : CharOrder[i] = c

RECURSIVE str_less(_, _)
str_less(a, b) ==
    IF b = <<>> THEN FALSE
    ELSE IF a = <<>> THEN TRUE
    ELSE IF Head(a) = Head(b) THEN str_less(Tail(a), Tail(b))
    ELSE CharRank(Head(a)) < CharRank(Head(b))

\* sorted(set of strings)
RECURSIVE sorted(_)
sorted(S) ==
    IF S = {} THEN <<>>
    ELSE LET least == CHOOSE s \in S : \A o \in S \ {s} : str_less(s, o)
         IN  <<least>> \o sorted(S \ {least})

\* the attribute column of a row of closest(): a transcript's attributes, or
\* "." when bedtools found no feature
NearestInfos ==
    { <<"gene_id", " ", QUOTE, "x", QUOTE, ";", " ", "gene_name", " ", QUOTE, "x", QUOTE, ";">>,
      <<"gene_name", " ", QUOTE, "a", QUOTE, ";">>,
      <<"gene_id", " ", QUOTE, "x", QUOTE, ";">>,
      <<"gene_name", " ", "x", ";">>,
      <<".">> }
ClosestRows ==
    {[chrom |-> "chr1", start |-> s, end |-> s + 10, gene_info |-> gi, distance |-> 0] :
        s \in {100}, gi \in NearestInfos}
ClosestTables == SeqsUpTo(ClosestRows, MaxFeatures)

\* find_nearest_genes lines 33-57: one result row per feature, in order; the
\* loop stops at the first feature whose scan raises
nearest_results(features) ==
    [i \in 1..Len(features) |-> scan_gene_name(features[i].gene_info)]

\* main lines 69-74
NRParseArgs ==
    /\ script = "extract_nearest_genes_of_peaks"
    /\ pc = "start"
    /\ args' = [script |-> script, bed |-> "peaks.bed", gtf |-> "genes.gtf",
                out |-> "nearest.tsv", gene_list |-> "genes.txt"]
    /\ pc' = "check_bed"
    /\ UNCHANGED <<script, exitCode, cliOthers, nrVars, genes, queries, result,
                   biomart_mapping, mapping, mapping_source, unmapped, stats, outFile,
                   stdout, stderr>>

\* mutant: the missing BED file is not noticed
NRBedMissingIgnored ==
    /\ script = "extract_nearest_genes_of_peaks"
    /\ pc = "check_bed"
    /\ args.bed \notin existing
    /\ pc' = "check_gtf"
    /\ UNCHANGED <<script, exitCode, cliOthers, nrVars, hcVars>>

\* main lines 76-77: the uncaught FileNotFoundError ends the process with status 1
NRBedMissing ==
    /\ script = "extract_nearest_genes_of_peaks"
    /\ pc = "check_bed"
    /\ args.bed \notin existing
    /\ stderr' = Append(stderr, "FileNotFoundError: BED file not found")
    /\ Exit(1)
    /\ UNCHANGED <<script, cliOthers, nrVars, args, genes, queries, result,
                   biomart_mapping, mapping, mapping_source, unmapped, stats, outFile, stdout>>

NRBedFound ==
    /\ script = "extract_nearest_genes_of_peaks"
    /\ pc = "check_bed"
    /\ args.bed \in existing
    /\ pc' = "check_gtf"
    /\ UNCHANGED <<script, exitCode, cliOthers, nrVars, hcVars>>

\* main lines 78-79
NRGtfMissing ==
    /\ script = "extract_nearest_genes_of_peaks"
    /\ pc = "check_gtf"
    /\ args.gtf \notin existing
    /\ stderr' = Append(stderr, "FileNotFoundError: GTF file not found")
    /\ Exit(1)
    /\ UNCHANGED <<script, cliOthers, nrVars, args, genes, queries, result,
                   biomart_mapping, mapping, mapping_source, unmapped, stats, outFile, stdout>>

NRGtfFound ==
    /\ script = "extract_nearest_genes_of_peaks"
    /\ pc = "check_gtf"
    /\ args.gtf \in existing
    /\ pc' = "find_nearest_genes"
    /\ UNCHANGED <<script, exitCode, cliOthers, nrVars, hcVars>>

\* main line 81, find_nearest_genes: the rows closest() returns are scanned for
\* gene names, then both files are written; an IndexError of the scan leaves
\* the function before either file is opened
NRFindNearestGenes ==
    /\ script = "extract_nearest_genes_of_peaks"
    /\ pc = "find_nearest_genes"
    /\ \E nearest \in ClosestTables :
          LET results == nearest_results(nearest)
              names == {results[i].value : i \in 1..Len(results)} \ {NA}
          IN  IF \E i \in 1..Len(results) : results[i].raised
              THEN /\ stderr' = Append(stderr, "IndexError: list index out of range")
                   /\ Exit(1)
                   /\ UNCHANGED <<nearestTsv, nearestGeneList>>
              ELSE /\ nearestTsv' = FileOf(
                          [i \in 1..Len(nearest) |->
                              [chrom |-> nearest[i].chrom, start |-> nearest[i].start,
                               end |-> nearest[i].end, nearest_gene |-> results[i].value,
                               distance |-> nearest[i].distance]])
                   /\ nearestGeneList' = FileOf(sorted(names))
                   /\ Exit(0)
                   /\ UNCHANGED stderr
    /\ UNCHANGED <<script, cliOthers, existing, args, genes, queries, result,
                   biomart_mapping, mapping, mapping_source, unmapped, stats, outFile, stdout>>

NextNearest ==
    \/ NRParseArgs
    \/ NRBedMissing
    \/ NRBedFound
    \/ NRGtfMissing
    \/ NRGtfFound
    \/ NRFindNearestGenes

NextCli == NextHomolog \/ NextNearest

SpecCli == InitCli /\ [][NextCli]_vars

(***************************************************************************)
(* extract_promoters.py, extract_all_genes.py, extract_genes_position.py   *)
(***************************************************************************)
GtfScripts == {"extract_promoters", "extract_all_genes", "extract_genes_position"}

AttrNameA == <<"gene_id", " ", QUOTE, "x", QUOTE, ";", " ", "gene_name", " ", QUOTE, "a", QUOTE, ";">>
AttrIdOnly == <<"gene_id", " ", QUOTE, "y", QUOTE, ";">>
AttrNoName == <<"n", " ", QUOTE, "x", QUOTE, ";">>
\* a value that holds a blank: the item splits into three parts
AttrBlankInValue == <<"gene_name", " ", QUOTE, "b", QUOTE, ";", " ", "n", " ", QUOTE, "x", " ", "y", QUOTE, ";">>
\* no blank after the semicolon: the two attributes stay one item
AttrNoBlank == <<"gene_id", " ", QUOTE, "y", QUOTE, ";", "gene_name", " ", QUOTE, "b", QUOTE, ";">>

GtfLine(feature, chrom, start, end, strand, attrs) ==
    [feature |-> feature, chrom |-> chrom, start |-> start, end |-> end,
     strand |-> strand, attrs |-> attrs]

GtfLines ==
    { GtfLine("transcript", "chr1", 11, 20, "+", AttrNameA),
      GtfLine("transcript", "chr1", 31, 40, "-", AttrNameA),
      GtfLine("transcript", "chrX", 51, 60, "+", AttrIdOnly),
      GtfLine("transcript", "chr2", 71, 80, "+", AttrBlankInValue),
      GtfLine("transcript", "chr2", 71, 80, "-", AttrNoBlank),
      GtfLine("transcript", "chr1", 11, 20, "+", AttrNoName),
      GtfLine("transcript", "chrUn_gl000220", 11, 20, "+", AttrNameA),
      GtfLine("exon", "chr1", 11, 15, "+", AttrNameA) }
GtfFiles == SeqsUpTo(GtfLines, MaxGtfLines)
GeneListFiles == {{}, {<<"a">>}, {<<"a">>, <<"y">>}}

InitGtf ==
    /\ script \in GtfScripts
    /\ pc = "loop"
    /\ exitCode = -1
    /\ NamingIdle
    /\ AttrIdle
    /\ HomologIdle
    /\ NearestIdle
    /\ ConvertIdle
    /\ SplitIdle
    /\ existing = {}
    /\ gtf \in GtfFiles
    /\ gene_set \in IF script = "extract_genes_position" THEN GeneListFiles ELSE {{}}
    /\ feature_index = 1
    /\ regions = <<>>
    /\ counters = NoCounters
    /\ outBed = NoFile

InLoop == script \in GtfScripts /\ pc = "loop" /\ feature_index <= Len(gtf)
feature == gtf[feature_index]
NextFeature == feature_index' = feature_index + 1
\* the chromosome filter of extract_all_genes and extract_genes_position
FiltersChrom == script \in {"extract_all_genes", "extract_genes_position"}
PassesChrom == FiltersChrom => feature.chrom \in standard_chroms
\* the feature reaches the attribute parser
ReachesParser == feature.feature = "transcript" /\ PassesChrom
Bump(field) == [counters EXCEPT ![field] = @ + 1]

\* extract_all_genes.py line 38 and extract_genes_position.py line 50 print
\* "Error parsing attributes"; extract_promoters.py line 21 prints nothing
warns_on_malformed(which) == which \in {"extract_all_genes", "extract_genes_position"}

\* feature[2] != 'transcript': continue
GtfSkipNonTranscript ==
    /\ InLoop
    /\ feature.feature # "transcript"
    /\ NextFeature
    /\ UNCHANGED <<script, pc, exitCode, gtfOthers, gtf, gene_set, regions, counters, outBed>>

\* chrom not in standard_chroms: counted and skipped
GtfSkipNonStandardChrom ==
    /\ InLoop
    /\ feature.feature = "transcript"
    /\ ~PassesChrom
    /\ counters' = Bump("non_standard_chroms")
    /\ NextFeature
    /\ UNCHANGED <<script, pc, exitCode, gtfOthers, gtf, gene_set, regions, outBed>>

\* the attribute column does not parse: except ... continue
GtfSkipMalformed ==
    /\ InLoop
    /\ ReachesParser
    /\ gtf_attrs(feature.attrs).raised
    /\ stdout' = IF warns_on_malformed(script)
                 THEN Append(stdout, "Error parsing attributes")
                 ELSE stdout
    /\ NextFeature
    /\ UNCHANGED <<script, pc, exitCode, ncVars, atVars, nrVars, cgVars, splitVars, args, genes,
                   queries, result, biomart_mapping, mapping, mapping_source, unmapped, stats, outFile,
                   stderr, gtf, gene_set, regions, counters, outBed>>

ParsedName == gene_name_or_id(gtf_attrs(feature.attrs).value)
Parses == ReachesParser /\ ~gtf_attrs(feature.attrs).raised

\* neither gene_name nor gene_id: continue
GtfSkipNoGeneName ==
    /\ InLoop
    /\ Parses
    /\ ParsedName = <<>>
    /\ NextFeature
    /\ UNCHANGED <<script, pc, exitCode, gtfOthers, gtf, gene_set, regions, counters, outBed>>

\* extract_promoters.py lines 27-50
GtfPromoter ==
    /\ InLoop
    /\ script = "extract_promoters"
    /\ Parses
    /\ ParsedName # <<>>
    /\ regions' = IF DictHas(regions, ParsedName) THEN regions
                  ELSE DictSet(regions, ParsedName,
                           promoter_interval(feature, ParsedName, DefaultUpstream, DefaultDownstream))
    /\ NextFeature
    /\ UNCHANGED <<script, pc, exitCode, gtfOthers, gtf, gene_set, counters, outBed>>

\* extract_all_genes.py lines 45-58
GtfGene ==
    /\ InLoop
    /\ script = "extract_all_genes"
    /\ Parses
    /\ ParsedName # <<>>
    /\ counters' = Bump("genes_processed")
    /\ regions' = IF DictHas(regions, ParsedName) THEN regions
                  ELSE DictSet(regions, ParsedName, gene_interval(feature, ParsedName))
    /\ NextFeature
    /\ UNCHANGED <<script, pc, exitCode, gtfOthers, gtf, gene_set, outBed>>

\* mutant: a later transcript of a gene replaces the interval recorded for it
GtfListedGeneOverwrites ==
    /\ InLoop
    /\ script = "extract_genes_position"
    /\ Parses
    /\ ParsedName # <<>>
    /\ ParsedName \in gene_set
    /\ counters' = Bump("genes_found")
    /\ regions' = DictSet(regions, ParsedName, gene_interval(feature, ParsedName))
    /\ NextFeature
    /\ UNCHANGED <<script, pc, exitCode, gtfOthers, gtf, gene_set, outBed>>

\* extract_genes_position.py lines 57-72: the gene is in the list
GtfListedGene ==
    /\ InLoop
    /\ script = "extract_genes_position"
    /\ Parses
    /\ ParsedName # <<>>
    /\ ParsedName \in gene_set
    /\ counters' = Bump("genes_found")
    /\ regions' = IF DictHas(regions, ParsedName) THEN regions
                  ELSE DictSet(regions, ParsedName, gene_interval(feature, ParsedName))
    /\ NextFeature
    /\ UNCHANGED <<script, pc, exitCode, gtfOthers, gtf, gene_set, outBed>>

\* extract_genes_position.py lines 73-74: the gene is not in the list
GtfUnlistedGene ==
    /\ InLoop
    /\ script = "extract_genes_position"
    /\ Parses
    /\ ParsedName # <<>>
    /\ ParsedName \notin gene_set
    /\ counters' = Bump("genes_not_found")
    /\ NextFeature
    /\ UNCHANGED <<script, pc, exitCode, gtfOthers, gtf, gene_set, regions, outBed>>

\* extract_promoters.py line 54 and extract_genes_position.py line 93 call
\* saveas(output_bed); extract_all_genes.py builds the BedTool (line 67) and
\* never saves it
saves_output(which) == which \in {"extract_promoters", "extract_genes_position"}

\* after the loop: the summary, and the output file
GtfFinish ==
    /\ script \in GtfScripts
    /\ pc = "loop"
    /\ feature_index > Len(gtf)
    /\ outBed' = IF saves_output(script) THEN saved_bed(regions) ELSE outBed
    /\ Exit(0)
    /\ UNCHANGED <<script, gtfOthers, gtf, gene_set, feature_index, regions, counters>>

NextGtf ==
    \/ GtfSkipNonTranscript
    \/ GtfSkipNonStandardChrom
    \/ GtfSkipMalformed
    \/ GtfSkipNoGeneName
    \/ GtfPromoter
    \/ GtfGene
    \/ GtfListedGene
    \/ GtfUnlistedGene
    \/ GtfFinish

SpecGtf == InitGtf /\ [][NextGtf]_vars

(***************************************************************************)
(* bed_split_proximal_distal.py                                            *)
(***************************************************************************)
BedRow(chrom, start, end) == [chrom |-> chrom, start |-> start, end |-> end]
InputRows == {BedRow("chr1", 5, 15), BedRow("chr1", 30, 50), BedRow("chr2", 0, 10)}
InputBeds == SeqsUpTo(InputRows, MaxBedRows)

PromoterRow(chrom, start, end, name) ==
    [chrom |-> chrom, start |-> start, end |-> end, name |-> name, score |-> ".", strand |-> "+"]
PromoterRows ==
    {PromoterRow("chr1", 0, 12, <<"a">>), PromoterRow("chr1", 10, 40, <<"b">>),
     PromoterRow("chr2", 100, 200, DOT)}
RefseqBeds == SeqsUpTo(PromoterRows, MaxPromoters)

AttrNameB == <<"gene_id", " ", QUOTE, "y", QUOTE, ";", " ", "gene_name", " ", QUOTE, "b", QUOTE, ";">>
RefseqGtfLines ==
    { GtfLine("transcript", "chr1", 11, 20, "+", AttrNameA),
      GtfLine("transcript", "chr1", 31, 40, "-", AttrNameB),
      GtfLine("transcript", "chr2", 5, 8, "-", AttrIdOnly),
      GtfLine("transcript", "chr2", 1, 8, "+", AttrIdOnly),
      GtfLine("exon", "chr1", 11, 15, "+", AttrNameA) }
RefseqGtfs == SeqsUpTo(RefseqGtfLines, MaxPromoters)
PromoterWindows == {0, 3, DefaultPromoterWindow}

\* the state when main has parsed its arguments: in GTF mode the annotation
\* is a GTF file and the promoter file is still to be written, otherwise the
\* annotation is the promoter file
InitSplit ==
    /\ script = "bed_split_proximal_distal"
    /\ pc = "start"
    /\ exitCode = -1
    /\ NamingIdle
    /\ AttrIdle
    /\ genes = <<>> /\ queries = <<>> /\ result = <<>> /\ biomart_mapping = <<>>
    /\ mapping = <<>> /\ mapping_source = <<>> /\ unmapped = <<>> /\ stats = NoStats
    /\ outFile = NoFile /\ stdout = <<>> /\ stderr = <<>>
    /\ NearestIdle
    /\ ConvertIdle
    /\ existing = {}
    /\ gene_set = {} /\ feature_index = 1 /\ regions = <<>> /\ counters = NoCounters
    /\ outBed = NoFile
    /\ input_bed \in InputBeds
    /\ \E is_gtf \in BOOLEAN, w \in PromoterWindows :
          /\ args = [script |-> script, gtf |-> is_gtf, promoter_window |-> w]
          /\ is_gtf => (gtf \in RefseqGtfs /\ promoter_bed = NoFile)
          /\ ~is_gtf => (gtf = <<>> /\ promoter_bed \in {FileOf(b) : b \in RefseqBeds}
                          /\ w = DefaultPromoterWindow)
    /\ gene_coords = <<>>
    /\ proximal_bed = NoFile
    /\ distal_bed = NoFile
    /\ intersected_bed = NoFile
    /\ intersected_txt = NoFile

SplitRun == script = "bed_split_proximal_distal"

\* main lines 121-124: GTF mode
SplitExtractPromoters ==
    /\ SplitRun
    /\ pc = "start"
    /\ args.gtf
    /\ LET made == promoters_from_gtf(gtf, args.promoter_window, <<>>, <<>>)
       IN  /\ promoter_bed' = FileOf(made[1])
           /\ gene_coords' = made[2]
    /\ pc' = "proximal"
    /\ UNCHANGED <<script, exitCode, splitOthers, args, stderr, gtf, input_bed, proximal_bed,
                   distal_bed, intersected_bed, intersected_txt>>

\* main lines 125-127: BED mode
SplitUseBed ==
    /\ SplitRun
    /\ pc = "start"
    /\ ~args.gtf
    /\ gene_coords' = <<>>
    /\ pc' = "proximal"
    /\ UNCHANGED <<script, exitCode, splitOthers, args, stderr, gtf, input_bed, promoter_bed,
                   proximal_bed, distal_bed, intersected_bed, intersected_txt>>

\* split_regions lines 73-78
SplitProximal ==
    /\ SplitRun
    /\ pc = "proximal"
    /\ proximal_bed' = FileOf(bedtools_intersect(input_bed, promoter_bed.lines, proximal_options))
    /\ pc' = "distal"
    /\ UNCHANGED <<script, exitCode, splitOthers, args, stderr, gtf, input_bed, promoter_bed,
                   gene_coords, distal_bed, intersected_bed, intersected_txt>>

\* split_regions lines 73-78: bedtools fails, check=True raises; the output
\* file was opened for writing and stays empty
SplitProximalFails ==
    /\ SplitRun
    /\ pc = "proximal"
    /\ proximal_bed' = FileOf(<<>>)
    /\ stderr' = Append(stderr, "CalledProcessError")
    /\ Exit(1)
    /\ UNCHANGED <<script, splitOthers, args, gtf, input_bed, promoter_bed,
                   gene_coords, distal_bed, intersected_bed, intersected_txt>>

\* split_regions lines 80-85
SplitDistal ==
    /\ SplitRun
    /\ pc = "distal"
    /\ distal_bed' = FileOf(bedtools_intersect(input_bed, promoter_bed.lines, distal_options))
    /\ pc' = "genes"
    /\ UNCHANGED <<script, exitCode, splitOthers, args, stderr, gtf, input_bed, promoter_bed,
                   gene_coords, proximal_bed, intersected_bed, intersected_txt>>

SplitDistalFails ==
    /\ SplitRun
    /\ pc = "distal"
    /\ distal_bed' = FileOf(<<>>)
    /\ stderr' = Append(stderr, "CalledProcessError")
    /\ Exit(1)
    /\ UNCHANGED <<script, splitOthers, args, gtf, input_bed, promoter_bed,
                   gene_coords, proximal_bed, intersected_bed, intersected_txt>>

\* split_regions lines 90-115: GTF mode with at least one named gene
SplitIntersectedGenes ==
    /\ SplitRun
    /\ pc = "genes"
    /\ args.gtf /\ gene_coords # <<>>
    /\ LET lines == bedtools_intersect(promoter_bed.lines, input_bed, genes_options)
           found == intersected_genes(lines, gene_coords, {}, <<>>)
       IN  /\ intersected_bed' = FileOf(found)
           /\ intersected_txt' = FileOf([i \in 1..Len(found) |-> found[i].name])
    /\ Exit(0)
    /\ UNCHANGED <<script, splitOthers, args, stderr, gtf, input_bed, promoter_bed,
                   gene_coords, proximal_bed, distal_bed>>

\* split_regions line 90: nothing more to do
SplitDone ==
    /\ SplitRun
    /\ pc = "genes"
    /\ ~(args.gtf /\ gene_coords # <<>>)
    /\ Exit(0)
    /\ UNCHANGED <<script, splitOthers, args, stderr, gtf, input_bed, promoter_bed,
                   gene_coords, proximal_bed, distal_bed, intersected_bed, intersected_txt>>

NextSplit ==
    \/ SplitExtractPromoters
    \/ SplitUseBed
    \/ SplitProximal
    \/ SplitProximalFails
    \/ SplitDistal
    \/ SplitDistalFails
    \/ SplitIntersectedGenes
    \/ SplitDone

SpecSplit == InitSplit /\ [][NextSplit]_vars

(***************************************************************************)
(* Gene-name extraction from a GTF attribute string, as a function         *)
(***************************************************************************)
AttrChars == {"gene_name", "x", " ", QUOTE, ";"}
\* two attributes, longer than the exhaustive bound
AttrSamples ==
    { <<"x", " ", QUOTE, "x", QUOTE, ";", " ", "gene_name", " ", QUOTE, "x", "x", QUOTE, ";">>,
      <<"x", " ", QUOTE, "x", QUOTE, ";", " ", "gene_name", " ", "x", "x", ";">> }
AttrStrings == StringsUpTo(AttrChars, MaxAttrLen) \cup AttrSamples

InitAttr ==
    /\ script = "gene_name_extraction"
    /\ pc = "start"
    /\ exitCode = -1
    /\ atAttr \in AttrStrings
    /\ atNearest = NotCalled
    /\ atSplit = NotCalled
    /\ NamingIdle
    /\ HomologIdle
    /\ NearestIdle
    /\ ConvertIdle
    /\ GtfIdle
    /\ SplitIdle
    /\ existing = {}

AttrScanNearest ==
    /\ script = "gene_name_extraction"
    /\ pc = "start"
    /\ atNearest' = scan_gene_name(atAttr)
    /\ pc' = "scanned"
    /\ UNCHANGED <<script, exitCode, attrOthers, atAttr, atSplit>>

AttrParseSplit ==
    /\ script = "gene_name_extraction"
    /\ pc = "scanned"
    /\ atSplit' = split_gene_name(atAttr)
    /\ pc' = "parsed"
    /\ UNCHANGED <<script, exitCode, attrOthers, atAttr, atNearest>>

NextAttr == AttrScanNearest \/ AttrParseSplit

SpecAttr == InitAttr /\ [][NextAttr]_vars

\* An attribute item is well formed when it reads: key, one blank, a quoted value.
NoneOf(s, chars) == \A i \in 1..Len(s) : s[i] \notin chars
IsAttrItem(item) ==
    \E k \in 1..Len(item) :
        /\ NoneOf(SubSeq(item, 1, k), {" ", QUOTE})
        /\ Len(item) >= k + 3
        /\ item[k + 1] = " "
        /\ item[k + 2] = QUOTE
        /\ item[Len(item)] = QUOTE
        /\ NoneOf(SubSeq(item, k + 3, Len(item) - 1), {QUOTE})
AttrItems(s) ==
    LET items == str_split(s, ";")
    IN  [i \in 1..Len(items) |-> str_strip(items[i], Whitespace)]
WellFormedAttr(s) ==
    \A i \in 1..Len(AttrItems(s)) : AttrItems(s)[i] = <<>> \/ IsAttrItem(AttrItems(s)[i])
GeneNameItems(s) ==
    {i \in 1..Len(AttrItems(s)) : str_split1(AttrItems(s)[i], " ")[1] = GENE_NAME}
\* the quoted gene_name value of a well-formed string that holds the key once
HasGeneName(s) == WellFormedAttr(s) /\ Cardinality(GeneNameItems(s)) = 1
QuotedGeneName(s) ==
    LET item == AttrItems(s)[CHOOSE i \in GeneNameItems(s) : TRUE]
    IN  SubSeq(item, 4, Len(item) - 1)

\* First half of C3: a well-formed attribute string that holds gene_name yields
\* its quoted value from both extractions.
C3_WellFormedRecovered ==
    (pc = "parsed" /\ HasGeneName(atAttr)) =>
        /\ atNearest = Returned(QuotedGeneName(atAttr))
        /\ atSplit = Returned(QuotedGeneName(atAttr))

\* C3: gene-name extraction returns the quoted gene_name value of every
\* well-formed attribute string, and for every string in which gene_name is
\* absent or malformed it yields the sentinel ('NA', respectively '.') and
\* does not raise.
C3_ExtractionOrSentinel ==
    pc = "parsed" =>
        IF HasGeneName(atAttr)
        THEN /\ atNearest = Returned(QuotedGeneName(atAttr))
             /\ atSplit = Returned(QuotedGeneName(atAttr))
        ELSE /\ atNearest = Returned(NA)
             /\ atSplit = Returned(DOT)

(***************************************************************************)
(* Properties of the command-line scripts                                  *)
(***************************************************************************)
Range(s) == {s[i] : i \in 1..Len(s)}
HCRun == script = "homolog_converter"
NRRun == script = "extract_nearest_genes_of_peaks"
\* convert_gene_orthologs has returned its result to main
ConversionReturned == HCRun /\ stats # NoStats
ErrorMessages ==
    {"Error: File not found", "Error reading file", "Error: No genes provided",
     "Error during conversion", "Error writing to file"}
ErrorReported == Range(stderr) \cap ErrorMessages # {}
EveryGeneMapped == \A i \in 1..Len(genes) : DictHas(mapping, genes[i])

\* C1: main exits 0 exactly when the conversion returned, every input gene
\* has a mapping (statistics 'unmapped' is 0) and nothing raised; it exits 1
\* when a gene is left unmapped and when the conversion or the write raises.
C1_ExitCode ==
    (HCRun /\ pc = "exited") =>
        /\ exitCode \in {0, 1}
        /\ ConversionReturned => ((stats.unmapped = 0) <=> EveryGeneMapped)
        /\ (exitCode = 0) <=> (ConversionReturned /\ stats.unmapped = 0 /\ ~ErrorReported)
        /\ (ConversionReturned /\ stats.unmapped > 0) => exitCode = 1
        /\ ({"Error during conversion", "Error writing to file"} \cap Range(stderr) # {})
               => exitCode = 1

\* main has exited 1 because a gene is unmapped, though nothing raised
C1_Witness ==
    /\ HCRun
    /\ pc = "exited"
    /\ exitCode = 1
    /\ stats.unmapped > 0
    /\ ~ErrorReported
    /\ mapping # <<>>

BiomartFailed ==
    \E i \in 1..Len(queries) : queries[i].outcome \in {"raised", "empty"}

\* C2: when building the client, the connection test or the ortholog query
\* raises, or the table is empty, _query_biomart returns an empty mapping and
\* the exception goes no further; with the fallback enabled,
\* convert_gene_orthologs then maps every input gene by the naming convention
\* and its unmapped list is empty.
C2_FailureFallsBack ==
    (HCRun /\ BiomartFailed) =>
        /\ biomart_mapping = <<>>
        /\ pc \in {"finish", "output", "exited"}
        /\ (pc = "finish") => exitCode = -1
        /\ (ConversionReturned /\ ~args.no_fallback) =>
              /\ unmapped = <<>>
              /\ stats.unmapped = 0
              /\ \A i \in 1..Len(genes) :
                    /\ DictHas(mapping, genes[i])
                    /\ DictGet(mapping, genes[i], NoStr)
                          = apply_naming_convention(converter, genes[i], args.direction)
                    /\ DictGet(mapping_source, genes[i], "none") = "naming_convention"

\* the ortholog query raised and two different genes were mapped by the convention
C2_Witness ==
    /\ HCRun
    /\ ConversionReturned
    /\ ~args.no_fallback
    /\ \E i \in 1..Len(queries) : queries[i] = Call("ortholog", "raised")
    /\ Len(mapping) = 2

\* one script's input file does not exist
HCFileMissing == HCRun /\ args # NoArgs /\ args.genes = <<>> /\ args.file \notin existing
NRFileMissing == NRRun /\ args # NoArgs /\ ({args.bed, args.gtf} \ existing # {})

\* C7: with -f naming a missing file, homolog_converter exits 1 with the error
\* on standard error and has issued no Biomart call and written no output;
\* extract_nearest_genes_of_peaks with a missing BED or GTF file ends with a
\* non-zero status and neither output file is ever written.
C7_MissingInputFile ==
    /\ HCFileMissing =>
          /\ pc \in {"read_input", "exited"}
          /\ queries = <<>>
          /\ ~outFile.exists
          /\ stdout = <<>>
          /\ (pc = "exited") => (exitCode = 1 /\ stderr = <<"Error: File not found">>)
    /\ NRFileMissing =>
          /\ pc \in {"check_bed", "check_gtf", "exited"}
          /\ ~nearestTsv.exists
          /\ ~nearestGeneList.exists
          /\ (pc = "exited") => (exitCode # 0 /\ stderr # <<>>)

\* the BED file exists, the GTF file does not, and the script has ended
C7_Witness ==
    /\ NRRun
    /\ pc = "exited"
    /\ existing = {"peaks.bed"}
    /\ exitCode = 1

QueryCalls == SelectSeq(queries, LAMBDA c : c.kind \in {"test", "ortholog"})

\* C8: one conversion issues at most one connection-test query and at most
\* one ortholog query, the ortholog query only after the connection test
\* succeeded, and no call at all after one that failed.
C8_NoRetry ==
    HCRun =>
        /\ Len(QueryCalls) <= 2
        /\ Cardinality({i \in 1..Len(QueryCalls) : QueryCalls[i].kind = "test"}) <= 1
        /\ Cardinality({i \in 1..Len(QueryCalls) : QueryCalls[i].kind = "ortholog"}) <= 1
        /\ \A i \in 1..Len(QueryCalls) :
              QueryCalls[i].kind = "ortholog" =>
                  (i = 2 /\ QueryCalls[1] = Call("test", "ok"))
        /\ \A i \in 1..Len(queries) : queries[i].outcome = "raised" => i = Len(queries)

\* the connection test succeeded, the ortholog query raised, the run is over
C8_Witness ==
    /\ HCRun
    /\ pc = "exited"
    /\ QueryCalls = <<Call("test", "ok"), Call("ortholog", "raised")>>

\* the source genes of a table that have a row with both cells valid
ValidSources(rows) == {rows[i][1] : i \in {j \in 1..Len(rows) : ValidRow(rows[j])}}

\* C10: with --no-fallback an input gene is in the mapping only if Biomart
\* returned a valid target for it (the mapping is what _query_biomart
\* returned, whose keys are the input genes with a valid row); every other
\* input gene is in 'unmapped' and not in 'mapping', and no mapping source is
\* 'naming_convention'.
C10_NoFallback ==
    /\ (HCRun /\ pc = "bm_build") =>
          \A i \in 1..Len(genes) :
              DictHas(query_biomart_mapping(genes, result), genes[i])
                  <=> genes[i] \in ValidSources(result)
    /\ (ConversionReturned /\ args.no_fallback) =>
          /\ mapping = (IF args.no_biomart THEN <<>> ELSE biomart_mapping)
          /\ Range(DictKeys(mapping)) \subseteq Range(genes)
          /\ \A i \in 1..Len(genes) :
                (genes[i] \in Range(unmapped)) <=> ~DictHas(mapping, genes[i])
          /\ Range(unmapped) \subseteq Range(genes)
          /\ \A i \in 1..Len(mapping_source) : mapping_source[i][2] # "naming_convention"
          /\ stats.convention_mapped = 0

\* without fallback, one gene was mapped by Biomart and another is unmapped
C10_Witness ==
    /\ ConversionReturned
    /\ args.no_fallback
    /\ Len(mapping) = 1
    /\ Len(unmapped) = 1
    /\ mapping_source[1][2] = "biomart"

\* the mapping sources convert_gene_orthologs assigns
MappingSources == {"biomart", "naming_convention"}
\* the lines of the tab-separated output below its header
TsvRows(lines) == SubSeq(lines, 2, Len(lines))
\* the text main wrote, to the --output file or to standard output
Written == IF args.output # "None" THEN outFile.lines ELSE stdout

\* C11: in every result convert_gene_orthologs returns, 'source' has exactly
\* the keys of 'mapping' (each once) and every source value is 'biomart' or
\* 'naming_convention'; the tab-separated text main writes has one line per
\* mapping entry, each with the source recorded for its gene and none with
\* 'unknown'.
C11_SourceCoversMapping ==
    ConversionReturned =>
        /\ Range(DictKeys(mapping_source)) = Range(DictKeys(mapping))
        /\ Len(mapping_source) = Len(mapping)
        /\ Cardinality(Range(DictKeys(mapping))) = Len(mapping)
        /\ \A i \in 1..Len(mapping_source) : mapping_source[i][2] \in MappingSources
        /\ (pc = "exited" /\ args.format = "tsv" /\ ~ErrorReported) =>
              /\ Len(Written) = Len(mapping) + 1
              /\ \A i \in 1..Len(mapping) :
                    /\ TsvRows(Written)[i][3] = DictGet(mapping_source, mapping[i][1], "unknown")
                    /\ TsvRows(Written)[i][3] \in MappingSources

\* a tab-separated file was written with one gene mapped by Biomart and
\* another by the naming convention
C11_Witness ==
    /\ ConversionReturned
    /\ pc = "exited"
    /\ args.format = "tsv"
    /\ outFile.exists
    /\ Len(outFile.lines) = 3
    /\ {outFile.lines[2][3], outFile.lines[3][3]} = MappingSources

(***************************************************************************)
(* Properties of the GTF extraction scripts                                *)
(***************************************************************************)
GtfRun == script \in GtfScripts
Done == {j \in 1..Len(gtf) : j < feature_index}
\* line j is a transcript whose attribute column reaches the parser and fails
MalformedAt(j) ==
    /\ gtf[j].feature = "transcript"
    /\ FiltersChrom => gtf[j].chrom \in standard_chroms
    /\ gtf_attrs(gtf[j].attrs).raised
\* line j is a transcript that passes the filters and names a gene
NamedAt(j) ==
    /\ gtf[j].feature = "transcript"
    /\ FiltersChrom => gtf[j].chrom \in standard_chroms
    /\ ~gtf_attrs(gtf[j].attrs).raised
    /\ gene_name_or_id(gtf_attrs(gtf[j].attrs).value) # <<>>
NameAt(j) == gene_name_or_id(gtf_attrs(gtf[j].attrs).value)
Warnings == SelectSeq(stdout, LAMBDA m : m = "Error parsing attributes")

\* C4: in extract_promoters, extract_all_genes and extract_genes_position a
\* transcript line whose attribute string cannot be parsed is skipped (it
\* adds no region), one warning is emitted for it, and the lines after it
\* are still processed.
C4_MalformedSkippedWithWarning ==
    GtfRun =>
        /\ Len(Warnings) = Cardinality({j \in Done : MalformedAt(j)})
        /\ \A i \in 1..Len(regions) : \E j \in Done : NamedAt(j) /\ NameAt(j) = regions[i][1]
        /\ (pc = "exited") => feature_index = Len(gtf) + 1

\* C9: after extract_all_gene_positions returns, the file named by
\* output_bed exists and holds one record for every gene name found on a
\* transcript line of a standard chromosome, and no other record.
C9_AllGenesWritesOutput ==
    (script = "extract_all_genes" /\ pc = "exited") =>
        /\ outBed.exists
        /\ Len(outBed.lines) = Cardinality({NameAt(j) : j \in {k \in 1..Len(gtf) : NamedAt(k)}})
        /\ {outBed.lines[i].name : i \in 1..Len(outBed.lines)}
              = {NameAt(j) : j \in {k \in 1..Len(gtf) : NamedAt(k)}}

\* line j is a transcript on a standard chromosome that names a listed gene
ListedAt(j) == NamedAt(j) /\ NameAt(j) \in gene_set
\* the first line of the file that qualifies for the gene
FirstListed(name) ==
    CHOOSE j \in 1..Len(gtf) :
        /\ ListedAt(j) /\ NameAt(j) = name
        /\ \A k \in 1..(j - 1) : ~(ListedAt(k) /\ NameAt(k) = name)
ListedNames == {NameAt(j) : j \in {k \in 1..Len(gtf) : ListedAt(k)}}

\* C13: the BED file extract_gene_positions_from_gtf writes holds one record
\* for every gene of the list that has a transcript line on a standard
\* chromosome, and no other record; each gene name occurs once, and its
\* record has the chromosome, the 0-based start, the end and the strand of
\* the first such transcript line of the gene in file order.
C13_ListedGenesFirstTranscript ==
    (script = "extract_genes_position" /\ pc = "exited") =>
        /\ outBed.exists
        /\ {outBed.lines[i].name : i \in 1..Len(outBed.lines)} = ListedNames
        /\ Len(outBed.lines) = Cardinality(ListedNames)
        /\ \A i \in 1..Len(outBed.lines) :
              LET r == outBed.lines[i]
                  first == gtf[FirstListed(r.name)]
              IN  /\ r.name \in gene_set
                  /\ r.chrom \in standard_chroms
                  /\ r.chrom = first.chrom
                  /\ r.start = first.start - 1
                  /\ r.end = first.end
                  /\ r.strand = first.strand

\* gene 'a' is listed; its first transcript is on a non-standard chromosome,
\* and two transcripts with different coordinates follow on chr1
C13_Witness ==
    /\ script = "extract_genes_position"
    /\ pc = "exited"
    /\ Len(gtf) = 3
    /\ gtf[1].chrom \notin standard_chroms
    /\ ListedAt(2) /\ ListedAt(3)
    /\ NameAt(2) = NameAt(3)
    /\ gtf[2].start # gtf[3].start
    /\ Len(outBed.lines) = 1

(***************************************************************************)
(* Properties of bed_split_proximal_distal.py                              *)
(***************************************************************************)
Count(row, rows) == Cardinality({i \in 1..Len(rows) : rows[i] = row})
\* split_regions has written both files
SplitWritten == SplitRun /\ (pc = "genes" \/ (pc = "exited" /\ exitCode = 0))

\* C5: split_regions writes every row of the input BED file to exactly one of
\* the two output files, the proximal file when the row overlaps a promoter
\* interval and the distal file when it overlaps none; the two row counts
\* sum to the row count of the input.
C5_RowsConserved ==
    SplitWritten =>
        /\ Len(proximal_bed.lines) + Len(distal_bed.lines) = Len(input_bed)
        /\ \A r \in InputRows :
              /\ Count(r, proximal_bed.lines) + Count(r, distal_bed.lines) = Count(r, input_bed)
              /\ Count(r, proximal_bed.lines) > 0 => OverlapsAny(r, promoter_bed.lines)
              /\ Count(r, distal_bed.lines) > 0 => ~OverlapsAny(r, promoter_bed.lines)

\* a row that overlaps two promoters went to the proximal file, another row
\* to the distal file
C5_Witness ==
    /\ SplitRun
    /\ pc = "exited"
    /\ exitCode = 0
    /\ Len(proximal_bed.lines) = 1
    /\ Len(distal_bed.lines) = 1
    /\ Len(SelectSeq(promoter_bed.lines, LAMBDA b : Overlaps(proximal_bed.lines[1], b))) = 2

\* the transcript lines of the RefSeq GTF file, in file order
Transcripts == SelectSeq(gtf, LAMBDA l : l.feature = "transcript")
\* the 0-based transcription start site of a transcript line
Tss(l) == IF l.strand = "+" THEN l.start - 1 ELSE l.end
Max(a, b) == IF a >= b THEN a ELSE b
\* extract_promoters_from_gtf has written the promoter file
PromotersWritten == SplitRun /\ args.gtf /\ pc # "start"

\* C15: in GTF mode the promoter file holds one line for every transcript
\* line of the GTF file, in file order, and no other line; the line has the
\* transcript's chromosome and strand, the quoted gene_name of the transcript
\* or '.' when it has none, and the interval [max(0, tss - w), tss + w], tss
\* being GTF start - 1 on strand '+' and the GTF end otherwise; for a window
\* w >= 0 the interval satisfies 0 <= start <= end.
C15_PromoterInterval ==
    PromotersWritten =>
        /\ promoter_bed.exists
        /\ Len(promoter_bed.lines) = Len(Transcripts)
        /\ \A i \in 1..Len(Transcripts) :
              LET l == Transcripts[i]
                  p == promoter_bed.lines[i]
                  w == args.promoter_window
              IN  /\ p.chrom = l.chrom
                  /\ p.strand = l.strand
                  /\ GeneNameItems(l.attrs) = {} => p.name = DOT
                  /\ HasGeneName(l.attrs) => p.name = QuotedGeneName(l.attrs)
                  /\ p.start = Max(0, Tss(l) - w)
                  /\ p.end = Tss(l) + w
                  /\ w >= 0 => (0 <= p.start /\ p.start <= p.end)

\* a transcript without gene_name on strand '-' whose window reaches below 0,
\* after a transcript on strand '+'
C15_Witness ==
    /\ PromotersWritten
    /\ Len(promoter_bed.lines) = 2
    /\ promoter_bed.lines[1].strand = "+"
    /\ promoter_bed.lines[2].strand = "-"
    /\ promoter_bed.lines[2].name = DOT
    /\ promoter_bed.lines[2].start = 0
    /\ Transcripts[2].end < args.promoter_window

(***************************************************************************)
(* Properties of convert_gene_orthologs called as a method                 *)
(***************************************************************************)
\* C12: for every direction other than 'm2h' and 'h2m' get_dataset_config
\* raises ValueError, and convert_gene_orthologs called with such a direction
\* ends with that ValueError: it issues no call to Biomart, builds no mapping
\* and no statistics, and returns no result.  With a valid direction the
\* configuration is returned and the call never raises ValueError.
C12_InvalidDirectionRaises ==
    /\ \A c \in Converters, d \in AnyDirections :
          get_dataset_config(c, d).raised <=> d \notin Directions
    /\ \A c \in Converters, d \in AnyDirections \ Directions :
          get_dataset_config(c, d) = Raised("ValueError")
    /\ (ConvertRun /\ pc # "call") =>
          IF args.direction \in Directions
          THEN ~returned.raised
          ELSE /\ returned = Raised("ValueError")
               /\ pc = "raised"
               /\ queries = <<>>
               /\ mapping = <<>>
               /\ stats = NoStats

\* the call asked for Biomart with a direction that is neither 'm2h' nor 'h2m'
C12_Witness ==
    /\ ConvertRun
    /\ pc = "raised"
    /\ args.direction \notin Directions
    /\ args.use_biomart
    /\ genes # <<>>

\* a cell of the table that is neither missing nor blank
PresentCell(v) == v # NaN /\ \E i \in 1..Len(v) : v[i] \notin Whitespace
\* the rows of the table that give the gene a target, both cells present
RowsFor(rows, g) ==
    {j \in 1..Len(rows) : rows[j][1] = g /\ PresentCell(rows[j][1]) /\ PresentCell(rows[j][2])}
HasBiomartTarget(rows, g) == RowsFor(rows, g) # {}
\* the target of the gene's last such row: a later row replaces an earlier one
BiomartTarget(rows, g) ==
    rows[CHOOSE j \in RowsFor(rows, g) : \A k \in RowsFor(rows, g) : k <= j][2]
\* _query_biomart has answered with a table
BiomartAnswered == ConvertRun /\ queries = AnsweredQueries

\* C14: the Biomart mapping's keys are exactly the input genes that have a
\* row whose source and target cells are both present and not blank, each
\* with the target of its last such row; in the result every such gene holds
\* that Biomart target with source 'biomart', with the fallback enabled or
\* not, and a gene has source 'naming_convention' only if Biomart did not
\* map it, its target then being the naming convention of the gene.
C14_FallbackOnlyForUnmapped ==
    /\ (BiomartAnswered /\ pc \in {"finish", "returned"}) =>
          /\ Range(DictKeys(biomart_mapping))
                = {g \in Range(genes) : HasBiomartTarget(result, g)}
          /\ \A i \in 1..Len(biomart_mapping) :
                /\ PresentCell(biomart_mapping[i][1])
                /\ PresentCell(biomart_mapping[i][2])
                /\ biomart_mapping[i][2] = BiomartTarget(result, biomart_mapping[i][1])
    /\ (ConvertRun /\ pc = "returned") =>
          /\ \A i \in 1..Len(genes) :
                (args.use_biomart /\ HasBiomartTarget(result, genes[i])) =>
                    /\ DictGet(mapping, genes[i], NoStr) = BiomartTarget(result, genes[i])
                    /\ DictGet(mapping_source, genes[i], "none") = "biomart"
          /\ \A i \in 1..Len(mapping_source) :
                mapping_source[i][2] = "naming_convention" =>
                    /\ ~DictHas(biomart_mapping, mapping_source[i][1])
                    /\ DictGet(mapping, mapping_source[i][1], NoStr)
                          = apply_naming_convention(args.self, mapping_source[i][1],
                                                    args.direction)

\* with the fallback enabled, one gene has two Biomart rows with different
\* targets and is mapped by Biomart, another gene by the naming convention
C14_Witness ==
    /\ ConvertRun
    /\ pc = "returned"
    /\ args.fallback_to_convention
    /\ Len(genes) = 2
    /\ Cardinality(RowsFor(result, genes[1])) = 2
    /\ result[1][2] # result[2][2]
    /\ mapping_source = <<(<<genes[1], "biomart">>), (<<genes[2], "naming_convention">>)>>

====
